---------------------------- MODULE Spec2Model ----------------------------
(***************************************************************************)
(* Model of the projection calculator of pixel-live-demo                   *)
(* (src/copy_of_pixel_live_demo_site.jsx, and its second copy              *)
(* src/unnamed/part_000): the CITY_TABLE lookup, the useCalculator hook    *)
(* with its three memoised values (metro, acv, out) and the change         *)
(* handlers of the Calculator panel.                                       *)
(*                                                                         *)
(* Numbers.  A JavaScript number is modelled as a record [n, d]:           *)
(*   d > 0          the real n/d, in lowest terms (exact, no rounding);    *)
(*   n = 1,  d = 0  Infinity;   n = -1, d = 0  -Infinity;                  *)
(*   n = 0,  d = 0  NaN.                                                   *)
(* Arithmetic is exact on the finite values and follows IEEE 754 on the    *)
(* three others.  Rounding error and the sign of zero are not modelled.    *)
(***************************************************************************)
EXTENDS Integers, Sequences, FiniteSets, TLC

VARIABLES
    city, channel, spend, pmc, gpc, apptRate, uplift, baseMeta, baseGoogle,
    commissionRate, closeRate, fundedCap,   \* the twelve useState slots
    metro, acv, out,                        \* the three useMemo values
    pc,                                     \* where the component is
    changes,                                \* change events handled so far
    app                                     \* the copy of the calculator in part_000

slots == <<city, channel, spend, pmc, gpc, apptRate, uplift, baseMeta,
           baseGoogle, commissionRate, closeRate, fundedCap>>
memos == <<metro, acv, out>>
vars == <<slots, memos, pc, changes, app>>

---------------------------------------------------------------------------
(* Number arithmetic *)

Abs(i) == IF i < 0 THEN -i ELSE i

Sign(i) == IF i < 0 THEN -1 ELSE IF i > 0 THEN 1 ELSE 0

RECURSIVE GCD(_, _)
GCD(a, b) == IF b = 0 THEN a ELSE GCD(b, a % b)

\* The number n/d (d of any sign; d = 0 gives Infinity, -Infinity or NaN).
Num(n, d) ==
    IF d = 0 THEN [n |-> Sign(n), d |-> 0]
    ELSE LET g == GCD(Abs(n), Abs(d))
         IN  [n |-> Sign(d) * (n \div g), d |-> Abs(d) \div g]

IntNum(i) == [n |-> i, d |-> 1]

Zero == IntNum(0)
One == IntNum(1)
NaN == [n |-> 0, d |-> 0]
Infinity == [n |-> 1, d |-> 0]

IsNaN(x) == x.n = 0 /\ x.d = 0

\* Number.isFinite
IsFinite(x) == x.d # 0

\* x * y
Mul(x, y) ==
    IF x.d = 0 \/ y.d = 0 THEN Num(Sign(x.n) * Sign(y.n), 0)
    ELSE IF x.n = 0 \/ y.n = 0 THEN Zero
    ELSE LET g1 == GCD(Abs(x.n), y.d)
             g2 == GCD(Abs(y.n), x.d)
         IN  [n |-> (x.n \div g1) * (y.n \div g2),
              d |-> (x.d \div g2) * (y.d \div g1)]

\* 1 / y
Inv(y) ==
    IF IsNaN(y) THEN NaN
    ELSE IF y.d = 0 THEN Zero
    ELSE IF y.n = 0 THEN Infinity
    ELSE Num(y.d, y.n)

\* x / y
Div(x, y) == Mul(x, Inv(y))

\* x + y
Add(x, y) ==
    IF IsNaN(x) \/ IsNaN(y) THEN NaN
    ELSE IF x.d = 0 /\ y.d = 0 THEN (IF x.n = y.n THEN x ELSE NaN)
    ELSE IF x.d = 0 THEN x
    ELSE IF y.d = 0 THEN y
    ELSE LET g == GCD(x.d, y.d)
         IN  Num(x.n * (y.d \div g) + y.n * (x.d \div g), (x.d \div g) * y.d)

Neg(x) == [n |-> -x.n, d |-> x.d]

\* x - y
Sub(x, y) == Add(x, Neg(y))

\* a/b < c/d for b > 0 and d > 0: by the integer parts, then by the
\* remainders (no product is formed).
RECURSIVE LtFrac(_, _, _, _)
LtFrac(a, b, c, d) ==
    IF a \div b # c \div d THEN a \div b < c \div d
    ELSE IF c % d = 0 THEN FALSE
    ELSE IF a % b = 0 THEN TRUE
    ELSE LtFrac(d, c % d, b, a % b)

\* x < y (false when either is NaN)
Lt(x, y) ==
    IF IsNaN(x) \/ IsNaN(y) THEN FALSE
    ELSE IF x.d = 0 /\ y.d = 0 THEN x.n < y.n
    ELSE IF x.d = 0 THEN x.n < 0
    ELSE IF y.d = 0 THEN y.n > 0
    ELSE LtFrac(x.n, x.d, y.n, y.d)

\* x > y
Gt(x, y) == Lt(y, x)

\* x <= y, x >= y
Le(x, y) == Lt(x, y) \/ (x = y /\ ~IsNaN(x))
Ge(x, y) == Le(y, x)

\* Math.max(x, y)
MathMax(x, y) ==
    IF IsNaN(x) \/ IsNaN(y) THEN NaN ELSE IF Lt(x, y) THEN y ELSE x

\* Math.min(x, y)
MathMin(x, y) ==
    IF IsNaN(x) \/ IsNaN(y) THEN NaN ELSE IF Lt(y, x) THEN y ELSE x

\* approx of the test harness: Math.abs(a - b) < eps, eps = 1e-6
approx(a, b) ==
    LET diff == Sub(a, b)
    IN  Lt(IF Lt(diff, Zero) THEN Neg(diff) ELSE diff, Num(1, 1000000))

\* floor of a finite number
Floor(x) == x.n \div x.d

\* Math.round(x): the nearest integer, a tie going up
MathRound(x) == IF x.d = 0 THEN x ELSE IntNum(Floor(Add(x, Num(1, 2))))

\* Math.round(x * 1000) / 1000, the rounding of Test Case 1
Round3(x) == Div(MathRound(Mul(x, IntNum(1000))), IntNum(1000))

\* Math.round(x * 10000) / 10000 and Math.round(x * 100) / 100, the
\* roundings of Test Case 2
Round4(x) == Div(MathRound(Mul(x, IntNum(10000))), IntNum(10000))

Round2(x) == Div(MathRound(Mul(x, IntNum(100))), IntNum(100))

\* A value JavaScript treats as false in (v || w): NaN and 0.
Falsy(x) == IsNaN(x) \/ (x.n = 0 /\ x.d # 0)

\* v || w
OrElse(v, w) == IF Falsy(v) THEN w ELSE v

---------------------------------------------------------------------------
(* parseFloat.  A string is a sequence of one-character strings.  The      *)
(* longest prefix that is a decimal literal is read: leading spaces, a     *)
(* sign, digits, a fraction, an exponent; NaN when it holds no digit.      *)
(* (The literal "Infinity" is not read; no input of the model holds it.)   *)

DigitChars == <<"0", "1", "2", "3", "4", "5", "6", "7", "8", "9">>

IsDigit(ch) == \E i \in 1..10 : DigitChars[i] = ch

DigitVal(ch) == (CHOOSE i \in 1..10 : DigitChars[i] = ch) - 1

RECURSIVE SkipSpaces(_, _)
SkipSpaces(t, i) == IF i <= Len(t) /\ t[i] = " " THEN SkipSpaces(t, i + 1) ELSE i

\* The first position from i on that holds no digit.
RECURSIVE DigitsEnd(_, _)
DigitsEnd(t, i) == IF i <= Len(t) /\ IsDigit(t[i]) THEN DigitsEnd(t, i + 1) ELSE i

\* The value of the digits t[i..j], after the digits read so far (acc).
RECURSIVE DigitsValue(_, _, _, _)
DigitsValue(t, i, j, acc) ==
    IF i > j THEN acc ELSE DigitsValue(t, i + 1, j, acc * 10 + DigitVal(t[i]))

RECURSIVE Pow10(_)
Pow10(k) == IF k <= 0 THEN 1 ELSE 10 * Pow10(k - 1)

parseFloat(t) ==
    LET at(i, set) == i <= Len(t) /\ t[i] \in set
        first == SkipSpaces(t, 1)
        start == IF at(first, {"+", "-"}) THEN first + 1 ELSE first
        intEnd == DigitsEnd(t, start)
        hasDot == at(intEnd, {"."})
        fracEnd == IF hasDot THEN DigitsEnd(t, intEnd + 1) ELSE intEnd
        nFrac == IF hasDot THEN fracEnd - (intEnd + 1) ELSE 0
        \* a "." after no digit and before no digit is not part of a literal
        mantEnd == IF hasDot /\ (intEnd - start) + nFrac > 0 THEN fracEnd ELSE intEnd
        expStart == IF at(mantEnd + 1, {"+", "-"}) THEN mantEnd + 2 ELSE mantEnd + 1
        expEnd == DigitsEnd(t, expStart)
        hasExp == at(mantEnd, {"e", "E"}) /\ expEnd > expStart
        exp == IF ~hasExp THEN 0
               ELSE IF at(mantEnd + 1, {"-"}) THEN -DigitsValue(t, expStart, expEnd - 1, 0)
               ELSE DigitsValue(t, expStart, expEnd - 1, 0)
        mant == DigitsValue(t, intEnd + 1, fracEnd - 1, DigitsValue(t, start, intEnd - 1, 0))
        sign == IF at(first, {"-"}) THEN -1 ELSE 1
    IN  IF (intEnd - start) + nFrac = 0 THEN NaN
        ELSE IF exp >= nFrac THEN Num(sign * mant * Pow10(exp - nFrac), 1)
        ELSE Num(sign * mant, Pow10(nFrac - exp))

---------------------------------------------------------------------------
(* City table *)

Entry(c, hundredths, a) == [city |-> c, mult |-> Num(hundredths, 100), avg |-> IntNum(a)]

CITY_TABLE == <<
    Entry("New York, NY", 135, 700000),
    Entry("San Francisco, CA", 135, 1200000),
    Entry("Los Angeles, CA", 130, 900000),
    Entry("Miami, FL", 130, 600000),
    Entry("Boston, MA", 130, 800000),
    Entry("Washington, DC", 130, 750000),
    Entry("San Jose, CA", 130, 1300000),
    Entry("Seattle, WA", 125, 850000),
    Entry("San Diego, CA", 125, 900000),
    Entry("Austin, TX", 120, 480000),
    Entry("Denver, CO", 120, 550000),
    Entry("Chicago, IL", 120, 360000),
    Entry("Philadelphia, PA", 120, 350000),
    Entry("Portland, OR", 120, 525000),
    Entry("Phoenix, AZ", 120, 450000),
    Entry("Dallas, TX", 115, 420000),
    Entry("Atlanta, GA", 115, 400000),
    Entry("Tampa, FL", 115, 380000),
    Entry("Charlotte, NC", 115, 380000),
    Entry("Nashville, TN", 115, 475000),
    Entry("Orlando, FL", 115, 380000),
    Entry("Houston, TX", 100, 330000),
    Entry("Minneapolis, MN", 100, 370000),
    Entry("Raleigh, NC", 100, 420000),
    Entry("Salt Lake City, UT", 100, 500000),
    Entry("Las Vegas, NV", 100, 430000),
    Entry("San Antonio, TX", 100, 320000),
    Entry("Columbus, OH", 100, 300000),
    Entry("Indianapolis, IN", 100, 290000),
    Entry("Cincinnati, OH", 100, 285000),
    Entry("Kansas City, MO", 100, 310000),
    Entry("St. Louis, MO", 100, 280000),
    Entry("Oklahoma City, OK", 90, 260000),
    Entry("Jacksonville, FL", 90, 325000),
    Entry("Cleveland, OH", 90, 220000),
    Entry("Pittsburgh, PA", 90, 275000),
    Entry("Milwaukee, WI", 90, 285000),
    Entry("San Juan, PR", 85, 300000) >>

\* The entry used when no city matches: { mult: 1, avg: 350000 }
DefaultMetro == [mult |-> IntNum(1), avg |-> IntNum(350000)]

\* Mutant of FindIndex: the index counted from 0, as find's array is.
FindIndex_ZeroBased(name) ==
    LET hits == {i \in 1..Len(CITY_TABLE) : CITY_TABLE[i].city = name}
    IN  IF hits = {} THEN 0 ELSE (CHOOSE i \in hits : \A j \in hits : i <= j) - 1

\* CITY_TABLE.find((c) => c.city === name): the first index whose city is
\* name, 0 when there is none (find returns undefined).
FindIndex(name) ==
    LET hits == {i \in 1..Len(CITY_TABLE) : CITY_TABLE[i].city = name}
    IN  IF hits = {} THEN 0 ELSE CHOOSE i \in hits : \A j \in hits : i <= j

\* Mutant of resolveMarket: the first entry when no city matches.
resolveMarket_FirstEntry(name) ==
    LET i == FindIndex(name)
    IN  IF i = 0 THEN CITY_TABLE[1] ELSE CITY_TABLE[i]

\* CITY_TABLE.find(...) || { mult: 1, avg: 350000 }
resolveMarket(name) ==
    LET i == FindIndex(name)
    IN  IF i = 0 THEN DefaultMetro ELSE CITY_TABLE[i]

---------------------------------------------------------------------------
(* useCalculator: the memoised values *)

\* acv = metro.avg * commissionRate
acvMemo(m, rate) == Mul(m.avg, rate)

(* The out memo.  Its callback reads the slots and the metro and acv of    *)
(* the render it runs in; s is the record of what it reads:                *)
(*   channel, baseMeta, baseGoogle, metro, uplift, fundedCap, pmc, gpc,    *)
(*   spend, apptRate, closeRate, acv.                                      *)
(* One operator per formula of the callback, over the values it uses.      *)

\* Mutant of baseCpl: the other channel's baseline.
baseCpl_OtherChannel(ch, bMeta, bGoogle, mult) ==
    Mul(IF ch = "meta" THEN bGoogle ELSE bMeta, mult)

baseCpl(ch, bMeta, bGoogle, mult) == Mul(IF ch = "meta" THEN bMeta ELSE bGoogle, mult)

\* Mutants of pixelCpl: the uplift added; the uplift ignored.
pixelCpl_Plus(cCpl, upl) == Mul(cCpl, Add(One, upl))
pixelCpl_NoUplift(cCpl, upl) == cCpl

pixelCpl(cCpl, upl) == Mul(cCpl, Sub(One, upl))

\* Mutants of funded: no clamp of the credits; one clamp of their sum;
\* Math.max in place of Math.min.
funded_NoClamp(cap, credit1, credit2) == MathMin(cap, Add(credit1, credit2))
funded_JointClamp(cap, credit1, credit2) == MathMin(cap, MathMax(Zero, Add(credit1, credit2)))
funded_Max(cap, credit1, credit2) ==
    MathMax(cap, Add(MathMax(Zero, credit1), MathMax(Zero, credit2)))

funded(cap, credit1, credit2) ==
    MathMin(cap, Add(MathMax(Zero, credit1), MathMax(Zero, credit2)))

\* Mutants of pixelBudget: the credit left out; the spend left out.
pixelBudget_NoCredit(sp, fund) == MathMax(Zero, sp)
pixelBudget_CreditOnly(sp, fund) == fund

pixelBudget(sp, fund) == Add(MathMax(Zero, sp), fund)

\* Mutants of leadsGuard: the cost per lead unchecked; the amount unchecked.
leadsGuard_NoCplCheck(amount, cpl) == Gt(amount, Zero)
leadsGuard_NoAmountCheck(amount, cpl) == Gt(cpl, Zero)

\* amount > 0 && cpl > 0 (competitorLeads with spend, pixelLeads with pixelBudget)
leadsGuard(amount, cpl) == Gt(amount, Zero) /\ Gt(cpl, Zero)

\* Mutant of competitorLeads: the division without its guard.
competitorLeads_Unguarded(sp, cCpl) == Div(sp, cCpl)

competitorLeads(sp, cCpl) == IF leadsGuard(sp, cCpl) THEN Div(sp, cCpl) ELSE Zero

pixelLeads(budget, pCpl) == IF leadsGuard(budget, pCpl) THEN Div(budget, pCpl) ELSE Zero

\* leads * apptRate
appts(leads, rate) == Mul(leads, rate)

\* appts > 0
cpaGuard(ap) == Gt(ap, Zero)

\* Mutant of cpa: the division without its guard.
cpa_Unguarded(amount, ap) == Div(amount, ap)

\* appts > 0 ? amount / appts : 0 (competitorCpa with spend, pixelCpa with pixelBudget)
cpa(amount, ap) == IF cpaGuard(ap) THEN Div(amount, ap) ELSE Zero

\* appts * closeRate
closed(ap, rate) == Mul(ap, rate)

\* closed * acv
revenue(cl, value) == Mul(cl, value)

\* Mutant of costOfWaiting: nothing lost by waiting.
costOfWaiting_None(pRevenue) == Zero

\* costOfWaiting = pixelRevenue
costOfWaiting(pRevenue) == pRevenue

\* The denominators of the divisions the callback evaluates: a
\* conditional's division is evaluated only when its condition holds.
Denominators(s) ==
    LET cCpl == baseCpl(s.channel, s.baseMeta, s.baseGoogle, s.metro.mult)
        pCpl == pixelCpl(cCpl, s.uplift)
        budget == pixelBudget(s.spend, funded(s.fundedCap, s.pmc, s.gpc))
        cAppts == appts(competitorLeads(s.spend, cCpl), s.apptRate)
        pAppts == appts(pixelLeads(budget, pCpl), s.apptRate)
    IN  (IF leadsGuard(s.spend, cCpl) THEN {cCpl} ELSE {})
        \cup (IF leadsGuard(budget, pCpl) THEN {pCpl} ELSE {})
        \cup (IF cpaGuard(cAppts) THEN {cAppts} ELSE {})
        \cup (IF cpaGuard(pAppts) THEN {pAppts} ELSE {})

\* The callback: its consts in order, and the object it returns.
outMemo(s) ==
    LET competitorCpl_ == baseCpl(s.channel, s.baseMeta, s.baseGoogle, s.metro.mult)
        pixelCpl_ == pixelCpl(competitorCpl_, s.uplift)
        funded_ == funded(s.fundedCap, s.pmc, s.gpc)
        pixelBudget_ == pixelBudget(s.spend, funded_)
        competitorLeads_ == competitorLeads(s.spend, competitorCpl_)
        pixelLeads_ == pixelLeads(pixelBudget_, pixelCpl_)
        competitorAppts_ == appts(competitorLeads_, s.apptRate)
        pixelAppts_ == appts(pixelLeads_, s.apptRate)
        competitorCpa_ == cpa(s.spend, competitorAppts_)
        pixelCpa_ == cpa(pixelBudget_, pixelAppts_)
        competitorClosed_ == closed(competitorAppts_, s.closeRate)
        pixelClosed_ == closed(pixelAppts_, s.closeRate)
        competitorRevenue_ == revenue(competitorClosed_, s.acv)
        pixelRevenue_ == revenue(pixelClosed_, s.acv)
        costOfWaiting_ == costOfWaiting(pixelRevenue_)
    IN  [ competitorCpl |-> competitorCpl_,
          pixelCpl |-> pixelCpl_,
          funded |-> funded_,
          pixelBudget |-> pixelBudget_,
          competitorLeads |-> competitorLeads_,
          pixelLeads |-> pixelLeads_,
          competitorAppts |-> competitorAppts_,
          pixelAppts |-> pixelAppts_,
          competitorCpa |-> competitorCpa_,
          pixelCpa |-> pixelCpa_,
          competitorClosed |-> competitorClosed_,
          pixelClosed |-> pixelClosed_,
          competitorRevenue |-> competitorRevenue_,
          pixelRevenue |-> pixelRevenue_,
          costOfWaiting |-> costOfWaiting_,
          deltaAppts |-> Sub(pixelAppts_, competitorAppts_),
          deltaRevenue |-> Sub(pixelRevenue_, competitorRevenue_),
          acv |-> s.acv ]

\* Mutant of Closure: the callback reads the close rate where it should
\* read the appointment rate, and the other way round.
Closure_RatesSwapped ==
    [ channel |-> channel, baseMeta |-> baseMeta, baseGoogle |-> baseGoogle,
      metro |-> metro, uplift |-> uplift, fundedCap |-> fundedCap,
      pmc |-> pmc, gpc |-> gpc, spend |-> spend, apptRate |-> closeRate,
      closeRate |-> apptRate, acv |-> acv ]

\* What the out callback reads in the current state.
Closure ==
    [ channel |-> channel, baseMeta |-> baseMeta, baseGoogle |-> baseGoogle,
      metro |-> metro, uplift |-> uplift, fundedCap |-> fundedCap,
      pmc |-> pmc, gpc |-> gpc, spend |-> spend, apptRate |-> apptRate,
      closeRate |-> closeRate, acv |-> acv ]

\* Mutant of DefaultSlots: the Google channel and no credit to start with.
DefaultSlots_GoogleNoCredit ==
    [ city |-> CITY_TABLE[1].city,
      channel |-> "google",
      spend |-> IntNum(1000),
      pmc |-> IntNum(0),
      gpc |-> IntNum(0),
      apptRate |-> Num(2, 10),
      uplift |-> Num(15, 100),
      baseMeta |-> IntNum(16),
      baseGoogle |-> IntNum(85),
      commissionRate |-> Num(25, 1000),
      closeRate |-> Num(25, 100),
      fundedCap |-> IntNum(1300) ]

\* The useState initial values.
DefaultSlots ==
    [ city |-> CITY_TABLE[1].city,
      channel |-> "meta",
      spend |-> IntNum(1000),
      pmc |-> IntNum(500),
      gpc |-> IntNum(0),
      apptRate |-> Num(2, 10),
      uplift |-> Num(15, 100),
      baseMeta |-> IntNum(16),
      baseGoogle |-> IntNum(85),
      commissionRate |-> Num(25, 1000),
      closeRate |-> Num(25, 100),
      fundedCap |-> IntNum(1300) ]

---------------------------------------------------------------------------
(* The second copy of the calculator, part_000 (root component App).  Its  *)
(* table and its initial values are transcribed from part_000; its hook    *)
(* and its handlers are, line for line, those of the first copy (part_000  *)
(* lines 89-145 and 184-242), so the same operators model them.  The       *)
(* variable app holds its slots and its three memo values.                 *)

CITY_TABLE_App == <<
    Entry("New York, NY", 135, 700000),
    Entry("San Francisco, CA", 135, 1200000),
    Entry("Los Angeles, CA", 130, 900000),
    Entry("Miami, FL", 130, 600000),
    Entry("Boston, MA", 130, 800000),
    Entry("Washington, DC", 130, 750000),
    Entry("San Jose, CA", 130, 1300000),
    Entry("Seattle, WA", 125, 850000),
    Entry("San Diego, CA", 125, 900000),
    Entry("Austin, TX", 120, 480000),
    Entry("Denver, CO", 120, 550000),
    Entry("Chicago, IL", 120, 360000),
    Entry("Philadelphia, PA", 120, 350000),
    Entry("Portland, OR", 120, 525000),
    Entry("Phoenix, AZ", 120, 450000),
    Entry("Dallas, TX", 115, 420000),
    Entry("Atlanta, GA", 115, 400000),
    Entry("Tampa, FL", 115, 380000),
    Entry("Charlotte, NC", 115, 380000),
    Entry("Nashville, TN", 115, 475000),
    Entry("Orlando, FL", 115, 380000),
    Entry("Houston, TX", 100, 330000),
    Entry("Minneapolis, MN", 100, 370000),
    Entry("Raleigh, NC", 100, 420000),
    Entry("Salt Lake City, UT", 100, 500000),
    Entry("Las Vegas, NV", 100, 430000),
    Entry("San Antonio, TX", 100, 320000),
    Entry("Columbus, OH", 100, 300000),
    Entry("Indianapolis, IN", 100, 290000),
    Entry("Cincinnati, OH", 100, 285000),
    Entry("Kansas City, MO", 100, 310000),
    Entry("St. Louis, MO", 100, 280000),
    Entry("Oklahoma City, OK", 90, 260000),
    Entry("Jacksonville, FL", 90, 325000),
    Entry("Cleveland, OH", 90, 220000),
    Entry("Pittsburgh, PA", 90, 275000),
    Entry("Milwaukee, WI", 90, 285000),
    Entry("San Juan, PR", 85, 300000) >>

\* Mutant of resolveMarketApp: the fallback entry for every name.
resolveMarketApp_Fallback(name) == DefaultMetro

\* CITY_TABLE.find(...) || { mult: 1, avg: 350000 }, over part_000's table
resolveMarketApp(name) ==
    LET hits == {i \in 1..Len(CITY_TABLE_App) : CITY_TABLE_App[i].city = name}
    IN  IF hits = {} THEN DefaultMetro
        ELSE CITY_TABLE_App[CHOOSE i \in hits : \A j \in hits : i <= j]

\* The useState initial values of part_000.
DefaultSlotsApp ==
    [ city |-> CITY_TABLE_App[1].city,
      channel |-> "meta",
      spend |-> IntNum(1000),
      pmc |-> IntNum(500),
      gpc |-> IntNum(0),
      apptRate |-> Num(2, 10),
      uplift |-> Num(15, 100),
      baseMeta |-> IntNum(16),
      baseGoogle |-> IntNum(85),
      commissionRate |-> Num(25, 1000),
      closeRate |-> Num(25, 100),
      fundedCap |-> IntNum(1300) ]

\* What the out callback reads in a render with slots s, metro m and acv a.
ClosureOf(s, m, a) ==
    [ channel |-> s.channel, baseMeta |-> s.baseMeta, baseGoogle |-> s.baseGoogle,
      metro |-> m, uplift |-> s.uplift, fundedCap |-> s.fundedCap,
      pmc |-> s.pmc, gpc |-> s.gpc, spend |-> s.spend, apptRate |-> s.apptRate,
      closeRate |-> s.closeRate, acv |-> a ]

\* The first render of App.
AppMounted ==
    LET s == DefaultSlotsApp
        m == resolveMarketApp(s.city)
        a == acvMemo(m, s.commissionRate)
    IN  [slots |-> s, metro |-> m, acv |-> a, out |-> outMemo(ClosureOf(s, m, a))]

---------------------------------------------------------------------------
(* The engine as a function of its inputs: one render of useCalculator     *)
(* from given slot values.  The market is looked up by name (Lookup), or   *)
(* an entry is handed in directly; then the projection is computed         *)
(* (Project).                                                              *)

\* Bounds of the input grids.
MaxUnits == 3
MaxHalves == 3

\* Money amounts: -500, 0, 500, ... MaxUnits * 500
Amounts == {IntNum(500 * k) : k \in -1..MaxUnits}

\* Rates: -1/2, 0, 1/2, 1, ... MaxHalves / 2
Rates == {Num(k, 2) : k \in -1..MaxHalves}

\* Rates within [0, 1]
UnitRates == {r \in Rates : Ge(r, Zero) /\ Le(r, One)}

\* Commission rates: none, the default and Test Case 9's
CommissionRates == {Zero, Num(25, 1000), Num(3, 100)}

\* metro and the other memos before they are computed
NoEntry == [mult |-> NaN, avg |-> NaN]
OutFields ==
    { "competitorCpl", "pixelCpl", "funded", "pixelBudget", "competitorLeads",
      "pixelLeads", "competitorAppts", "pixelAppts", "competitorCpa", "pixelCpa",
      "competitorClosed", "pixelClosed", "competitorRevenue", "pixelRevenue",
      "costOfWaiting", "deltaAppts", "deltaRevenue", "acv" }
NoOut == [f \in OutFields |-> NaN]

\* An input: the slots, and the entry handed in (NoEntry: look the city up).
DefaultCase ==
    [ entry |-> NoEntry ] @@ DefaultSlots

\* Entries handed to the engine directly, among them multipliers the table
\* does not hold (zero, negative).
GivenEntries ==
    {[mult |-> m, avg |-> IntNum(350000)] : m \in {IntNum(-1), Zero, One, Num(135, 100)}}

\* The market table as the specification (section 6) lists it: place, state,
\* costMultiplier in hundredths, referenceAssetPrice.  Stated for C7; it is
\* not read by the model of the code.
Listed(p, st, hundredths, a) ==
    [place |-> p, state |-> st, mult |-> Num(hundredths, 100), avg |-> IntNum(a)]

SpecTable == <<
    Listed("New York", "NY", 135, 700000),
    Listed("San Francisco", "CA", 135, 1200000),
    Listed("Los Angeles", "CA", 130, 900000),
    Listed("Miami", "FL", 130, 600000),
    Listed("Boston", "MA", 130, 800000),
    Listed("Washington", "DC", 130, 750000),
    Listed("San Jose", "CA", 130, 1300000),
    Listed("Seattle", "WA", 125, 850000),
    Listed("San Diego", "CA", 125, 900000),
    Listed("Austin", "TX", 120, 480000),
    Listed("Denver", "CO", 120, 550000),
    Listed("Chicago", "IL", 120, 360000),
    Listed("Philadelphia", "PA", 120, 350000),
    Listed("Portland", "OR", 120, 525000),
    Listed("Phoenix", "AZ", 120, 450000),
    Listed("Dallas", "TX", 115, 420000),
    Listed("Atlanta", "GA", 115, 400000),
    Listed("Tampa", "FL", 115, 380000),
    Listed("Charlotte", "NC", 115, 380000),
    Listed("Nashville", "TN", 115, 475000),
    Listed("Orlando", "FL", 115, 380000),
    Listed("Houston", "TX", 100, 330000),
    Listed("Minneapolis", "MN", 100, 370000),
    Listed("Raleigh", "NC", 100, 420000),
    Listed("Salt Lake City", "UT", 100, 500000),
    Listed("Las Vegas", "NV", 100, 430000),
    Listed("San Antonio", "TX", 100, 320000),
    Listed("Columbus", "OH", 100, 300000),
    Listed("Indianapolis", "IN", 100, 290000),
    Listed("Cincinnati", "OH", 100, 285000),
    Listed("Kansas City", "MO", 100, 310000),
    Listed("St. Louis", "MO", 100, 280000),
    Listed("Oklahoma City", "OK", 90, 260000),
    Listed("Jacksonville", "FL", 90, 325000),
    Listed("Cleveland", "OH", 90, 220000),
    Listed("Pittsburgh", "PA", 90, 275000),
    Listed("Milwaukee", "WI", 90, 285000),
    Listed("San Juan", "PR", 85, 300000) >>

\* A listed market's name as the specification writes it, and with the
\* comma the code's table has before the state.
SpecName(e) == e.place \o " " \o e.state
CommaName(e) == e.place \o ", " \o e.state

SpecNames == {SpecName(SpecTable[i]) : i \in 1..Len(SpecTable)}

\* The names looked up: the table's own, the same without the comma, in
\* another case, with a space added, the empty string and a stranger.
TableNames == {CITY_TABLE[i].city : i \in 1..Len(CITY_TABLE)}

OtherNames ==
    { "New York NY", "new york, ny", "NEW YORK, NY", "New York, NY ", " New York, NY",
      "New York", "St. Louis MO", "San Juan PR", "", "Atlantis, XX" }

LookupCases ==
    {[DefaultCase EXCEPT !.city = c] : c \in TableNames \cup SpecNames \cup OtherNames}

\* Credits against the cap.
CreditCases ==
    {[DefaultCase EXCEPT !.pmc = a, !.gpc = b, !.fundedCap = c, !.spend = s] :
        a \in Amounts, b \in Amounts, c \in Amounts, s \in {Zero, IntNum(1000)}}

\* Zero and negative spend, budget, cost per lead and appointment rate.
GuardCases ==
    {[DefaultCase EXCEPT !.spend = s, !.fundedCap = c, !.baseMeta = b, !.entry = e,
                         !.uplift = u, !.apptRate = r] :
        s \in Amounts, c \in {IntNum(-500), IntNum(1300)},
        b \in {IntNum(-10), Zero, IntNum(10)}, e \in GivenEntries,
        u \in Rates, r \in Rates}

\* The rates over and around their ranges, on both channels.
RateCases ==
    {[DefaultCase EXCEPT !.channel = ch, !.uplift = u, !.apptRate = r, !.closeRate = cl,
                         !.commissionRate = co, !.spend = s, !.pmc = a] :
        ch \in {"meta", "google"}, u \in Rates, r \in Rates, cl \in UnitRates,
        co \in CommissionRates, s \in {Zero, IntNum(1000)}, a \in {Zero, IntNum(500)}}

\* Test Case 2 with the credit in either slot and the cap at the credit or
\* above it.
ScenarioBCases ==
    {[DefaultCase EXCEPT !.city = "Houston, TX", !.channel = "google",
                         !.baseGoogle = IntNum(100), !.spend = IntNum(1500),
                         !.apptRate = Num(27, 100), !.uplift = Num(3, 10),
                         !.pmc = a, !.gpc = Sub(IntNum(500), a), !.fundedCap = c] :
        a \in {Zero, IntNum(500)}, c \in {IntNum(500), IntNum(1300)}}

\* The scenarios of the test harness (Test Case 1, 2, 4, 5, 6).
ScenarioCases ==
    { [DefaultCase EXCEPT !.baseMeta = IntNum(10)],
      [DefaultCase EXCEPT !.city = "Houston, TX", !.baseMeta = IntNum(20),
                          !.uplift = Num(3, 10), !.pmc = Zero],
      [DefaultCase EXCEPT !.baseMeta = IntNum(10), !.pmc = Zero],
      [DefaultCase EXCEPT !.city = "Houston, TX", !.channel = "google",
                          !.baseGoogle = IntNum(100), !.spend = IntNum(1500),
                          !.apptRate = Num(27, 100), !.uplift = Num(3, 10)],
      [DefaultCase EXCEPT !.pmc = IntNum(1000), !.gpc = IntNum(800)],
      [DefaultCase EXCEPT !.pmc = IntNum(-200), !.gpc = IntNum(-50)] }

EngineCases ==
    LookupCases \cup CreditCases \cup GuardCases \cup RateCases \cup ScenarioCases
    \cup ScenarioBCases

\* The uplift values an input's uplift is compared with: the grid's and the
\* options of the Pixel Efficiency select.
UpliftValues == Rates \cup {Zero, Num(15, 100), Num(3, 10)}

\* The whole render for an input: metro, acv, out.
project(c) ==
    LET m == IF c.entry = NoEntry THEN resolveMarket(c.city) ELSE c.entry
    IN  outMemo([ channel |-> c.channel, baseMeta |-> c.baseMeta,
                  baseGoogle |-> c.baseGoogle, metro |-> m, uplift |-> c.uplift,
                  fundedCap |-> c.fundedCap, pmc |-> c.pmc, gpc |-> c.gpc,
                  spend |-> c.spend, apptRate |-> c.apptRate,
                  closeRate |-> c.closeRate, acv |-> acvMemo(m, c.commissionRate) ])

EngineInit ==
    \E c \in EngineCases :
        /\ city = c.city
        /\ channel = c.channel
        /\ spend = c.spend
        /\ pmc = c.pmc
        /\ gpc = c.gpc
        /\ apptRate = c.apptRate
        /\ uplift = c.uplift
        /\ baseMeta = c.baseMeta
        /\ baseGoogle = c.baseGoogle
        /\ commissionRate = c.commissionRate
        /\ closeRate = c.closeRate
        /\ fundedCap = c.fundedCap
        /\ metro = c.entry
        /\ acv = NaN
        /\ out = NoOut
        /\ pc = IF c.entry = NoEntry THEN "lookup" ELSE "given"
        /\ changes = 0
        /\ app = AppMounted

\* metro = CITY_TABLE.find(...) || default
Lookup ==
    /\ pc = "lookup"
    /\ metro' = resolveMarket(city)
    /\ pc' = "resolved"
    /\ UNCHANGED <<slots, acv, out, changes, app>>

\* acv and out, computed from the entry and the slots
Project ==
    /\ pc \in {"resolved", "given"}
    /\ acv' = acvMemo(metro, commissionRate)
    /\ out' = outMemo([Closure EXCEPT !.acv = acvMemo(metro, commissionRate)])
    /\ pc' = "done"
    /\ UNCHANGED <<slots, metro, changes, app>>

EngineNext == Lookup \/ Project

EngineSpec == EngineInit /\ [][EngineNext]_vars

---------------------------------------------------------------------------
(* The mounted calculator: the twelve slots at their initial values, the   *)
(* three memo values of the first render, and one action per change        *)
(* handler.  An action is the handler, the slot update and the re-render   *)
(* that follows it; the re-render recomputes a memo value exactly when one *)
(* of its dependencies differs from the previous render's.                 *)

\* How many change events a behaviour holds.
MaxChanges == 2

\* What a number field hands to its handler: the empty string when the
\* field is cleared or holds no valid number, else the text typed.  The
\* min and max attributes of a field do not stop a value from being typed.
\* Texts typed into the four dollar fields
AmountTexts ==
    { <<>>,
      <<"0">>,
      <<"-", "5", "0", "0">>,
      <<"8", "0", "0">>,
      <<"2", "e", "3">> }

\* Texts typed into the two base CPL fields
CplTexts == { <<>>, <<"-", "8">>, <<"2", "0">> }

\* Texts typed into the commission rate field
CommissionTexts == { <<>>, <<"0", ".", "0", "3">>, <<"-", "0", ".", "0", "1">> }

\* Texts typed into the close rate field
RateTexts == { <<>>, <<".", "5">>, <<"-", "0", ".", "5">>, <<"1", ".", "5">> }

\* The option values of the two rate selects, as the DOM holds them.
ApptRateOptions == { <<"0", ".", "1">>, <<"0", ".", "2">>, <<"0", ".", "2", "7">> }

UpliftOptions == { <<"0">>, <<"0", ".", "1", "5">>, <<"0", ".", "3">> }

ChannelOptions == {"meta", "google"}

CityOptions == { CITY_TABLE[i].city : i \in 1..Len(CITY_TABLE) }

CurrentSlots ==
    [ city |-> city, channel |-> channel, spend |-> spend, pmc |-> pmc,
      gpc |-> gpc, apptRate |-> apptRate, uplift |-> uplift,
      baseMeta |-> baseMeta, baseGoogle |-> baseGoogle,
      commissionRate |-> commissionRate, closeRate |-> closeRate,
      fundedCap |-> fundedCap ]

\* The dependency arrays of the three memos, for the slots s and the metro m
\* and acv a of the same render.
metroDeps(s) == <<s.city>>

\* Mutant of acvDeps: the commission rate left out of the array.
acvDeps_AvgOnly(m, rate) == <<m.avg>>

acvDeps(m, rate) == <<m.avg, rate>>

\* Mutant of outDeps: acv left out of the array.
outDeps_NoAcv(s, m, a) ==
    <<m.mult, s.channel, s.spend, s.pmc, s.gpc, s.apptRate, s.uplift,
      s.baseMeta, s.baseGoogle, s.closeRate, s.fundedCap>>

outDeps(s, m, a) ==
    <<m.mult, s.channel, s.spend, s.pmc, s.gpc, s.apptRate, s.uplift,
      s.baseMeta, s.baseGoogle, a, s.closeRate, s.fundedCap>>

\* The render after the slots have taken the values s.
Rerender(s) ==
    /\ city' = s.city
    /\ channel' = s.channel
    /\ spend' = s.spend
    /\ pmc' = s.pmc
    /\ gpc' = s.gpc
    /\ apptRate' = s.apptRate
    /\ uplift' = s.uplift
    /\ baseMeta' = s.baseMeta
    /\ baseGoogle' = s.baseGoogle
    /\ commissionRate' = s.commissionRate
    /\ closeRate' = s.closeRate
    /\ fundedCap' = s.fundedCap
    /\ metro' = IF metroDeps(s) = metroDeps(CurrentSlots)
                THEN metro
                ELSE resolveMarket(s.city)
    /\ acv' = IF acvDeps(metro', s.commissionRate) = acvDeps(metro, commissionRate)
              THEN acv
              ELSE acvMemo(metro', s.commissionRate)
    /\ out' = IF outDeps(s, metro', acv') = outDeps(CurrentSlots, metro, acv)
              THEN out
              ELSE outMemo(Closure')

\* The render of App after its slots have taken the values s; prev is its
\* previous render.
RenderApp(prev, s) ==
    LET m == IF metroDeps(s) = metroDeps(prev.slots)
             THEN prev.metro
             ELSE resolveMarketApp(s.city)
        a == IF acvDeps(m, s.commissionRate) = acvDeps(prev.metro, prev.slots.commissionRate)
             THEN prev.acv
             ELSE acvMemo(m, s.commissionRate)
        o == IF outDeps(s, m, a) = outDeps(prev.slots, prev.metro, prev.acv)
             THEN prev.out
             ELSE outMemo(ClosureOf(s, m, a))
    IN  [slots |-> s, metro |-> m, acv |-> a, out |-> o]

\* A change event is handled: the setter of the slot named field is called
\* with value, in both copies, and each copy renders again.
Handle(field, value) ==
    /\ pc = "mounted"
    /\ changes < MaxChanges
    /\ changes' = changes + 1
    /\ pc' = pc
    /\ Rerender([CurrentSlots EXCEPT ![field] = value])
    /\ app' = RenderApp(app, [app.slots EXCEPT ![field] = value])

Init ==
    /\ city = DefaultSlots.city
    /\ channel = DefaultSlots.channel
    /\ spend = DefaultSlots.spend
    /\ pmc = DefaultSlots.pmc
    /\ gpc = DefaultSlots.gpc
    /\ apptRate = DefaultSlots.apptRate
    /\ uplift = DefaultSlots.uplift
    /\ baseMeta = DefaultSlots.baseMeta
    /\ baseGoogle = DefaultSlots.baseGoogle
    /\ commissionRate = DefaultSlots.commissionRate
    /\ closeRate = DefaultSlots.closeRate
    /\ fundedCap = DefaultSlots.fundedCap
    /\ metro = resolveMarket(city)
    /\ acv = acvMemo(metro, commissionRate)
    /\ out = outMemo(Closure)
    /\ pc = "mounted"
    /\ changes = 0
    /\ app = AppMounted

ChangeCity(value) == Handle("city", value)

ChangeChannel(value) == Handle("channel", value)

ChangeSpend(text) ==
    Handle("spend", OrElse(parseFloat(text), Zero))

ChangePmc(text) ==
    Handle("pmc", OrElse(parseFloat(text), Zero))

ChangeGpc(text) ==
    Handle("gpc", OrElse(parseFloat(text), Zero))

ChangeApptRate(text) == Handle("apptRate", parseFloat(text))

ChangeUplift(text) == Handle("uplift", parseFloat(text))

ChangeBaseMeta(text) ==
    Handle("baseMeta", OrElse(parseFloat(text), One))

ChangeBaseGoogle(text) ==
    Handle("baseGoogle", OrElse(parseFloat(text), One))

ChangeCommissionRate(text) ==
    Handle("commissionRate", OrElse(parseFloat(text), Zero))

ChangeCloseRate(text) ==
    Handle("closeRate", OrElse(parseFloat(text), Zero))

ChangeFundedCap(text) ==
    Handle("fundedCap", OrElse(parseFloat(text), Zero))

Next ==
    \/ \E value \in CityOptions : ChangeCity(value)
    \/ \E value \in ChannelOptions : ChangeChannel(value)
    \/ \E text \in AmountTexts : ChangeSpend(text)
    \/ \E text \in AmountTexts : ChangePmc(text)
    \/ \E text \in AmountTexts : ChangeGpc(text)
    \/ \E text \in ApptRateOptions : ChangeApptRate(text)
    \/ \E text \in UpliftOptions : ChangeUplift(text)
    \/ \E text \in CplTexts : ChangeBaseMeta(text)
    \/ \E text \in CplTexts : ChangeBaseGoogle(text)
    \/ \E text \in CommissionTexts : ChangeCommissionRate(text)
    \/ \E text \in RateTexts : ChangeCloseRate(text)
    \/ \E text \in AmountTexts : ChangeFundedCap(text)

Spec == Init /\ [][Next]_vars

---------------------------------------------------------------------------
(* Properties of the engine (EngineSpec) *)

Done == pc = "done"

AllFinite(o) == \A f \in OutFields : IsFinite(o[f])

\* C1 as stated: funded (appliedCredit) never exceeds fundedCap and is never
\* below 0, for any credits and any fundedCap the engine is given.
C1_Original ==
    Done => Le(out.funded, fundedCap) /\ Ge(out.funded, Zero)

\* C1, amended: funded never exceeds fundedCap, for any credits and any
\* fundedCap; and it is never below 0 when fundedCap is not below 0.
C1_FundedWithinCap ==
    Done => /\ Le(out.funded, fundedCap)
            /\ (Ge(fundedCap, Zero) => Ge(out.funded, Zero))

\* A negative credit, and the other credit over a cap that is not negative.
C1_Witness ==
    Done /\ Lt(pmc, Zero) /\ Gt(gpc, fundedCap) /\ Ge(fundedCap, Zero)

\* min and max of integers, for stating C2 apart from the model's arithmetic
IntMax(a, b) == IF a < b THEN b ELSE a
IntMin(a, b) == IF a < b THEN a ELSE b

\* C2: funded = min(fundedCap, max(0, creditA) + max(0, creditB)): each
\* credit clamped to zero on its own, the cap applied to the sum; 1000 and
\* 800 under a cap of 1300 give 1300, and -200 and -50 give 0.
C2_FundedFormula ==
    Done /\ pmc.d = 1 /\ gpc.d = 1 /\ fundedCap.d = 1 =>
        /\ out.funded = IntNum(IntMin(fundedCap.n, IntMax(0, pmc.n) + IntMax(0, gpc.n)))
        /\ (pmc = IntNum(1000) /\ gpc = IntNum(800) /\ fundedCap = IntNum(1300)
                => out.funded = IntNum(1300))
        /\ (pmc = IntNum(-200) /\ gpc = IntNum(-50) /\ fundedCap = IntNum(1300)
                => out.funded = IntNum(0))

\* One credit negative, the other positive and under the cap: clamping the
\* sum instead of each credit would give less.
C2_Witness ==
    Done /\ Lt(pmc, Zero) /\ Gt(gpc, Zero) /\ Lt(gpc, fundedCap) /\ out.funded = gpc

\* C3: for every input, zero and negative ones included, the projection
\* completes with finite values and no division it evaluates has a zero or
\* negative denominator; the lead counts and the costs per appointment are 0
\* whenever their denominator is zero or negative.
C3_NoDivisionHazard ==
    Done =>
        /\ AllFinite(out)
        /\ \A den \in Denominators(Closure) : Gt(den, Zero)
        /\ (Le(out.competitorCpl, Zero) => out.competitorLeads = Zero)
        /\ (Le(out.pixelCpl, Zero) => out.pixelLeads = Zero)
        /\ (Le(out.competitorAppts, Zero) => out.competitorCpa = Zero)
        /\ (Le(out.pixelAppts, Zero) => out.pixelCpa = Zero)

\* Positive spend and budget over a cost per lead of exactly zero.
C3_Witness ==
    Done /\ Gt(spend, Zero) /\ out.competitorCpl = Zero /\ out.pixelCpl = Zero
         /\ Gt(out.pixelBudget, Zero)

\* C4: competitorLeads is spend / competitorCpl when both are positive and 0
\* otherwise; pixelLeads is pixelBudget / pixelCpl when both are positive and
\* 0 otherwise.
C4_LeadsGuarded ==
    Done =>
        /\ IF Gt(spend, Zero) /\ Gt(out.competitorCpl, Zero)
           THEN Mul(out.competitorLeads, out.competitorCpl) = spend
           ELSE out.competitorLeads = Zero
        /\ IF Gt(out.pixelBudget, Zero) /\ Gt(out.pixelCpl, Zero)
           THEN Mul(out.pixelLeads, out.pixelCpl) = out.pixelBudget
           ELSE out.pixelLeads = Zero

\* A negative budget over a positive cost per lead.
C4_Witness ==
    Done /\ Lt(out.pixelBudget, Zero) /\ Gt(out.pixelCpl, Zero) /\ out.pixelLeads = Zero

\* C5: when spend is 0, competitorLeads, competitorAppts and competitorCpa
\* are 0, whatever the other inputs.
C5_ZeroSpend ==
    Done /\ spend = Zero =>
        /\ out.competitorLeads = Zero
        /\ out.competitorAppts = Zero
        /\ out.competitorCpa = Zero

\* Zero spend with everything else positive: the platform scenario, which
\* has the credit, is not zero.
C5_Witness ==
    Done /\ spend = Zero /\ Gt(out.competitorCpl, Zero) /\ Gt(apptRate, Zero)
         /\ Gt(out.pixelAppts, Zero) /\ out.competitorCpa = Zero

\* C6: the lookup never fails; for any name it gives the table entry whose
\* city is exactly that name (case and spacing included), and for a name no
\* entry has it gives the default of multiplier 1 and price 350000.
C6_LookupTotal ==
    /\ pc = "lookup" => ENABLED Lookup
    /\ pc = "resolved" =>
        /\ \A i \in 1..Len(CITY_TABLE) : CITY_TABLE[i].city = city => metro = CITY_TABLE[i]
        /\ (\A i \in 1..Len(CITY_TABLE) : CITY_TABLE[i].city # city) =>
              metro = [mult |-> IntNum(1), avg |-> IntNum(350000)]

\* A table name in lower case is looked up and matches nothing.
C6_Witness ==
    pc = "resolved" /\ city = "new york, ny" /\ metro.avg = IntNum(350000)

\* C7 as stated: each of the 38 names, written as the specification writes
\* it, resolves to the multiplier and price the specification lists for it.
C7_Original ==
    pc = "resolved" =>
        \A i \in 1..Len(SpecTable) :
            city = SpecName(SpecTable[i]) =>
                metro.mult = SpecTable[i].mult /\ metro.avg = SpecTable[i].avg

\* C7, amended: each of the 38 names resolves to the listed multiplier and
\* price when written with a comma before the state ("New York, NY"), as the
\* code's table has it; written as the specification writes it ("New York
\* NY") it matches no entry and resolves to the default.
C7_ListedMarkets ==
    /\ Len(SpecTable) = Len(CITY_TABLE)
    /\ pc = "resolved" =>
        \A i \in 1..Len(SpecTable) :
            /\ city = CommaName(SpecTable[i]) =>
                  metro.mult = SpecTable[i].mult /\ metro.avg = SpecTable[i].avg
            /\ city = SpecName(SpecTable[i]) => metro = DefaultMetro

\* St. Louis, written with its comma, has been looked up.
C7_Witness ==
    pc = "resolved" /\ city = "St. Louis, MO" /\ metro.avg = IntNum(280000)

\* The inputs other than uplift within their documented ranges.
OthersInRange ==
    /\ Ge(spend, Zero) /\ Ge(pmc, Zero) /\ Ge(gpc, Zero) /\ Ge(fundedCap, Zero)
    /\ Gt(baseMeta, Zero) /\ Gt(baseGoogle, Zero)
    /\ Gt(metro.mult, Zero) /\ Gt(metro.avg, Zero)
    /\ Ge(apptRate, Zero) /\ Le(apptRate, One)
    /\ Ge(commissionRate, Zero) /\ Le(commissionRate, One)
    /\ Ge(closeRate, Zero) /\ Le(closeRate, One)

\* The output for the current inputs with the uplift replaced by u.
OutWithUplift(u) == outMemo([Closure EXCEPT !.uplift = u])

\* u is a larger uplift than the current one, and pixelCpl and pixelBudget
\* are positive at both.
LargerUplift(u) ==
    /\ Gt(u, uplift)
    /\ Gt(out.pixelCpl, Zero) /\ Gt(OutWithUplift(u).pixelCpl, Zero)
    /\ Gt(out.pixelBudget, Zero)

\* C8 as stated: with the other inputs anywhere in their ranges, a larger
\* uplift gives strictly more pixelAppts and strictly more pixelRevenue
\* (taken here for the uplift values within [0, 1) alone).
C8_Original ==
    Done /\ OthersInRange /\ Ge(uplift, Zero) =>
        \A u \in UpliftValues :
            LargerUplift(u) /\ Lt(u, One) =>
                /\ Gt(OutWithUplift(u).pixelAppts, out.pixelAppts)
                /\ Gt(OutWithUplift(u).pixelRevenue, out.pixelRevenue)

\* C8, amended: a larger uplift gives strictly more pixelAppts when apptRate
\* is positive, and strictly more pixelRevenue when apptRate, closeRate and
\* commissionRate are all positive; when one of them is 0 the quantity is 0
\* at both uplift values.
C8_UpliftMonotone ==
    Done /\ OthersInRange =>
        \A u \in UpliftValues :
            LargerUplift(u) =>
                /\ IF Gt(apptRate, Zero)
                   THEN Gt(OutWithUplift(u).pixelAppts, out.pixelAppts)
                   ELSE OutWithUplift(u).pixelAppts = Zero /\ out.pixelAppts = Zero
                /\ IF Gt(apptRate, Zero) /\ Gt(closeRate, Zero) /\ Gt(commissionRate, Zero)
                   THEN Gt(OutWithUplift(u).pixelRevenue, out.pixelRevenue)
                   ELSE OutWithUplift(u).pixelRevenue = Zero /\ out.pixelRevenue = Zero

\* No uplift, positive rates, and a larger uplift with more revenue.
C8_Witness ==
    /\ Done /\ OthersInRange /\ uplift = Zero
    /\ Gt(apptRate, Zero) /\ Gt(closeRate, Zero) /\ Gt(commissionRate, Zero)
    /\ \E u \in UpliftValues :
          LargerUplift(u) /\ Gt(OutWithUplift(u).pixelRevenue, out.pixelRevenue)

\* An input within the documented ranges.
CaseInRange(c) ==
    LET m == IF c.entry = NoEntry THEN resolveMarket(c.city) ELSE c.entry
    IN  /\ Ge(c.spend, Zero) /\ Ge(c.pmc, Zero) /\ Ge(c.gpc, Zero) /\ Ge(c.fundedCap, Zero)
        /\ Gt(c.baseMeta, Zero) /\ Gt(c.baseGoogle, Zero)
        /\ Gt(m.mult, Zero) /\ Gt(m.avg, Zero)
        /\ Ge(c.apptRate, Zero) /\ Le(c.apptRate, One)
        /\ Ge(c.uplift, Zero) /\ Lt(c.uplift, One)
        /\ Ge(c.commissionRate, Zero) /\ Le(c.commissionRate, One)
        /\ Ge(c.closeRate, Zero) /\ Le(c.closeRate, One)

\* C9 as stated: some input within the documented ranges, with no uplift and
\* no credits, makes the platform scenario underperform.  It speaks of the
\* inputs, not of the state it is evaluated in.
C9_Original ==
    Done => \E c \in EngineCases :
        /\ CaseInRange(c) /\ c.uplift = Zero /\ c.pmc = Zero /\ c.gpc = Zero
        /\ \/ Lt(project(c).pixelAppts, project(c).competitorAppts)
           \/ Lt(project(c).pixelRevenue, project(c).competitorRevenue)

\* C9, amended: within the documented ranges neither delta is negative, and
\* with no uplift and no credits the two scenarios tie: both deltas are 0.
C9_TieWithoutUplift ==
    Done /\ OthersInRange /\ Ge(uplift, Zero) /\ Lt(uplift, One) =>
        /\ Ge(out.deltaAppts, Zero) /\ Ge(out.deltaRevenue, Zero)
        /\ (uplift = Zero /\ pmc = Zero /\ gpc = Zero =>
              /\ out.deltaAppts = Zero /\ out.deltaRevenue = Zero
              /\ out.pixelAppts = out.competitorAppts
              /\ out.pixelRevenue = out.competitorRevenue)

\* No uplift, no credits, and both scenarios with the same positive revenue.
C9_Witness ==
    /\ Done /\ OthersInRange /\ uplift = Zero /\ pmc = Zero /\ gpc = Zero
    /\ Gt(out.competitorRevenue, Zero) /\ out.deltaRevenue = Zero

\* The deltas are negative for some inputs outside the documented ranges:
\* an uplift of 1 makes pixelCpl 0 and pixelLeads 0.
C9_NegativeOutOfRange ==
    Done /\ uplift = One /\ Lt(out.deltaAppts, Zero) /\ Lt(out.deltaRevenue, Zero)

\* Scenario A: New York's multiplier 1.35, Meta baseline 10, spend 1000,
\* appointment rate 0.2, uplift 0.15, the credits and the cap at their defaults.
ScenarioA ==
    /\ metro.mult = Num(135, 100) /\ channel = "meta" /\ baseMeta = IntNum(10)
    /\ spend = IntNum(1000) /\ apptRate = Num(2, 10) /\ uplift = Num(15, 100)
    /\ pmc = IntNum(500) /\ gpc = Zero /\ fundedCap = IntNum(1300)

\* C10: scenario A yields, after rounding to 3 decimals, competitorCpl 13.5,
\* pixelCpl 11.475, competitorLeads 74.074, pixelLeads 87.167,
\* competitorAppts 14.815 and pixelAppts 17.434.
C10_ScenarioA ==
    Done /\ ScenarioA =>
        /\ Round3(out.competitorCpl) = Num(13500, 1000)
        /\ Round3(out.pixelCpl) = Num(11475, 1000)
        /\ Round3(out.competitorLeads) = Num(74074, 1000)
        /\ Round3(out.pixelLeads) = Num(87167, 1000)
        /\ Round3(out.competitorAppts) = Num(14815, 1000)
        /\ Round3(out.pixelAppts) = Num(17434, 1000)

\* What the code yields for scenario A: the competitor's figures as claimed,
\* pixelLeads 130.719 and pixelAppts 26.144 with the default credit of 500
\* (87.146 and 17.429 with no credit, as Test Case 1 computes them), and
\* Test Case 1's own assertion of 17.434 not met.
C10_CodeValues ==
    Done /\ metro.mult = Num(135, 100) /\ channel = "meta" /\ baseMeta = IntNum(10)
         /\ spend = IntNum(1000) /\ apptRate = Num(2, 10) /\ uplift = Num(15, 100)
         /\ gpc = Zero /\ fundedCap = IntNum(1300) /\ pmc \in {Zero, IntNum(500)} =>
        /\ Round3(out.competitorCpl) = Num(13500, 1000)
        /\ Round3(out.pixelCpl) = Num(11475, 1000)
        /\ Round3(out.competitorLeads) = Num(74074, 1000)
        /\ Round3(out.competitorAppts) = Num(14815, 1000)
        /\ (pmc = IntNum(500) => /\ Round3(out.pixelLeads) = Num(130719, 1000)
                                 /\ Round3(out.pixelAppts) = Num(26144, 1000))
        /\ (pmc = Zero => /\ Round3(out.pixelLeads) = Num(87146, 1000)
                          /\ Round3(out.pixelAppts) = Num(17429, 1000)
                          /\ ~approx(Round3(out.pixelAppts), Num(17434, 1000)))

\* Scenario B: a multiplier of 1.0 (Houston), the selected baseline 100
\* (Google), spend 1500, one credit of 500 under a cap of at least 500,
\* appointment rate 0.27, uplift 0.3.
ScenarioB ==
    /\ metro.mult = One /\ channel = "google" /\ baseGoogle = IntNum(100)
    /\ spend = IntNum(1500) /\ apptRate = Num(27, 100) /\ uplift = Num(3, 10)
    /\ {pmc, gpc} = {Zero, IntNum(500)} /\ Ge(fundedCap, IntNum(500))

\* C11: scenario B yields competitorCpl 100, pixelCpl 70, pixelBudget 2000,
\* competitorLeads 15, pixelLeads 2000/70 (28.5714 to 4 decimals),
\* competitorAppts 4.05 and pixelAppts 7.7143 to 4 decimals, and Test
\* Case 2's four assertions are met.
C11_ScenarioB ==
    Done /\ ScenarioB =>
        /\ out.competitorCpl = IntNum(100)
        /\ out.pixelCpl = IntNum(70)
        /\ out.pixelBudget = IntNum(2000)
        /\ out.competitorLeads = IntNum(15)
        /\ out.pixelLeads = Num(2000, 70)
        /\ Round4(out.pixelLeads) = Num(285714, 10000)
        /\ out.competitorAppts = Num(405, 100)
        /\ Round4(out.pixelAppts) = Num(77143, 10000)
        /\ approx(out.competitorLeads, IntNum(15))
        /\ approx(Round4(out.pixelLeads), Num(285714, 10000))
        /\ approx(Round2(out.competitorAppts), Num(405, 100))
        /\ approx(Round4(out.pixelAppts), Num(77143, 10000))

\* Scenario B has been projected, with the credit in the second slot and
\* the cap equal to it.
C11_Witness ==
    Done /\ ScenarioB /\ gpc = IntNum(500) /\ fundedCap = IntNum(500)
         /\ out.funded = IntNum(500)

\* The baseline cost of the selected channel.
SelectedBaseline == IF channel = "meta" THEN baseMeta ELSE baseGoogle

\* C12: competitorCpl is the selected channel's baseline times the market's
\* multiplier, pixelCpl is competitorCpl * (1 - uplift), and with an uplift
\* of 0 pixelCpl equals competitorCpl.
C12_PixelCplFormula ==
    Done =>
        /\ out.competitorCpl = Mul(SelectedBaseline, metro.mult)
        /\ out.pixelCpl = Mul(out.competitorCpl, Sub(One, uplift))
        /\ (uplift = Zero => out.pixelCpl = out.competitorCpl)

\* A projection on the Google channel with an uplift of 0 and a positive
\* cost per lead.
C12_Witness ==
    Done /\ channel = "google" /\ uplift = Zero
         /\ out.pixelCpl = Mul(baseGoogle, metro.mult) /\ Gt(out.pixelCpl, Zero)

\* C13: in every projection costOfWaiting equals pixelRevenue, whether the
\* guards force the revenue to zero or out-of-range rates make it negative.
C13_CostOfWaiting == Done => out.costOfWaiting = out.pixelRevenue

\* A projection whose pixelRevenue is negative: the appointment rate is
\* below zero.
C13_Witness ==
    Done /\ Lt(apptRate, Zero) /\ Lt(out.pixelRevenue, Zero)
         /\ out.costOfWaiting = out.pixelRevenue

\* A projection whose pixelRevenue the guards force to zero, and one whose
\* pixelRevenue is positive (both are reached).
C13_ZeroByGuard ==
    Done /\ ~leadsGuard(out.pixelBudget, out.pixelCpl) /\ Gt(closeRate, Zero)
         /\ Gt(acv, Zero) /\ Gt(apptRate, Zero) /\ out.costOfWaiting = Zero

C13_Positive == Done /\ Gt(out.pixelRevenue, Zero) /\ out.costOfWaiting = out.pixelRevenue

Mounted == pc = "mounted"

\* C14: after any sequence of changes acv is the average price of the market
\* the current city resolves to, times the current commission rate (400000
\* and 0.025 give 10000; 500000 and 0.03 give 15000); it is never left at
\* the value of an earlier market or commission rate.
C14_AcvLinked ==
    Mounted =>
        /\ acv = Mul(resolveMarket(city).avg, commissionRate)
        /\ out.acv = acv
        /\ (resolveMarket(city).avg = IntNum(400000) /\ commissionRate = Num(25, 1000)
                => acv = IntNum(10000))
        /\ (resolveMarket(city).avg = IntNum(500000) /\ commissionRate = Num(3, 100)
                => acv = IntNum(15000))

\* The market and the commission rate have both been changed: Salt Lake
\* City (500000) at 3% gives 15000.
C14_Witness ==
    Mounted /\ changes = 2 /\ city = "Salt Lake City, UT"
            /\ commissionRate = Num(3, 100) /\ acv = IntNum(15000)

\* One change of market: Atlanta (400000) at the initial 2.5% gives 10000
\* (reached).
C14_Atlanta ==
    Mounted /\ changes = 1 /\ city = "Atlanta, GA" /\ acv = IntNum(10000)

\* The projection computed from scratch from the current slots alone.
FromScratch == project([entry |-> NoEntry] @@ CurrentSlots)

\* C15: after any sequence of changes the out the calculator exposes is the
\* projection computed from scratch from the current slots: no field is
\* stale, and metro and acv are those of the current city and rate.
C15_NoStaleOutput ==
    Mounted =>
        /\ out = FromScratch
        /\ metro = resolveMarket(city)
        /\ acv = acvMemo(metro, commissionRate)

\* Two changes have been handled, the second one leaving the dependencies
\* of the out of the first render changed: a market of another multiplier
\* and price, then a spend other than the initial one.
C15_Witness ==
    Mounted /\ changes = 2 /\ metro.mult # resolveMarket(DefaultSlots.city).mult
            /\ metro.avg # resolveMarket(DefaultSlots.city).avg
            /\ spend # DefaultSlots.spend /\ Gt(spend, Zero)
            /\ out = FromScratch /\ Gt(out.pixelRevenue, Zero)

\* A change of market that leaves the multiplier as it was and changes the
\* price (New York to San Francisco): the out memo is recomputed through
\* its acv dependency (reached).
C15_SameMultiplier ==
    Mounted /\ changes = 1 /\ city # DefaultSlots.city
            /\ metro.mult = resolveMarket(DefaultSlots.city).mult
            /\ metro.avg # resolveMarket(DefaultSlots.city).avg
            /\ out.acv = acvMemo(metro, commissionRate)

\* 0 <= x <= 1
InUnit(x) == Ge(x, Zero) /\ Le(x, One)

\* C16: in every state the change handlers lead to, the rates the engine
\* reads lie in their documented ranges: apptRate in [0,1], uplift in
\* [0,1), commissionRate in [0,1], closeRate in [0,1].
C16_RatesInRange ==
    Mounted =>
        /\ InUnit(apptRate)
        /\ Ge(uplift, Zero) /\ Lt(uplift, One)
        /\ InUnit(commissionRate)
        /\ InUnit(closeRate)

\* What the code keeps: the two rates set through a select stay among its
\* options; the two typed rates are whatever parseFloat reads, or 0.
C16_SelectRates ==
    Mounted =>
        /\ apptRate \in {Num(1, 10), Num(2, 10), Num(27, 100)}
        /\ uplift \in {Zero, Num(15, 100), Num(3, 10)}

\* A close rate above 1 and a commission rate below 0 have reached the
\* engine together (reached).
C16_OutOfRange ==
    Mounted /\ Gt(closeRate, One) /\ Lt(commissionRate, Zero)
            /\ out = FromScratch /\ Lt(out.pixelRevenue, Zero)

\* The calculator as mounted, before any change.
Initial == Mounted /\ changes = 0

\* C17: the initial state is the documented defaults: the first table entry
\* (New York, NY), channel meta, spend 1000, credits 500 and 0, apptRate
\* 0.2, uplift 0.15, baselines 16 and 85, commissionRate 0.025, closeRate
\* 0.25, fundedCap 1300.
C17_InitialDefaults ==
    Initial =>
        /\ city = CITY_TABLE[1].city
        /\ city = "New York, NY"
        /\ channel = "meta"
        /\ spend = IntNum(1000)
        /\ pmc = IntNum(500)
        /\ gpc = Zero
        /\ apptRate = Num(2, 10)
        /\ uplift = Num(15, 100)
        /\ baseMeta = IntNum(16)
        /\ baseGoogle = IntNum(85)
        /\ commissionRate = Num(25, 1000)
        /\ closeRate = Num(25, 100)
        /\ fundedCap = IntNum(1300)

\* The first render: the market is New York's entry and acv is 17500.
C17_Witness ==
    Initial /\ metro = CITY_TABLE[1] /\ acv = IntNum(17500)
            /\ out.funded = IntNum(500) /\ out.pixelBudget = IntNum(1500)

\* The precondition of C18: no credit applied, so both scenarios spend the
\* same; a positive spend, competitor cost per lead and appointment rate;
\* an uplift strictly between 0 and 1.
EqualSpendAdvantage ==
    /\ out.funded = Zero /\ out.pixelBudget = spend
    /\ Gt(spend, Zero) /\ Gt(out.competitorCpl, Zero) /\ Gt(apptRate, Zero)
    /\ Gt(uplift, Zero) /\ Lt(uplift, One)

\* C18: with equal spend on both scenarios, positive spend, competitor cost
\* per lead and appointment rate, and an uplift strictly between 0 and 1,
\* pixelAppts is strictly greater than competitorAppts.
C18_PixelAdvantage ==
    Done /\ EqualSpendAdvantage => Gt(out.pixelAppts, out.competitorAppts)

\* Test Case 5: spend 1000, baseline 20, multiplier 1.0, uplift 0.3, rate
\* 0.2 give 10 appointments against 1000 / 14 * 0.2.
C18_Witness ==
    Done /\ EqualSpendAdvantage /\ spend = IntNum(1000)
         /\ out.competitorCpl = IntNum(20) /\ out.pixelCpl = IntNum(14)
         /\ out.competitorAppts = IntNum(10) /\ out.pixelAppts = Num(100, 7)

\* The documented ranges of C20: spend, credits and cap not negative, the
\* selected baseline and the multiplier positive, uplift in [0,1), the
\* three rates in [0,1].
DocumentedRanges ==
    /\ Ge(spend, Zero) /\ Ge(pmc, Zero) /\ Ge(gpc, Zero) /\ Ge(fundedCap, Zero)
    /\ Gt(SelectedBaseline, Zero) /\ Gt(metro.mult, Zero)
    /\ Ge(uplift, Zero) /\ Lt(uplift, One)
    /\ InUnit(apptRate) /\ InUnit(commissionRate) /\ InUnit(closeRate)

\* C20: within the documented ranges the platform scenario never
\* underperforms: pixelLeads >= competitorLeads, deltaAppts >= 0 and
\* deltaRevenue >= 0.
C20_NeverUnderperforms ==
    Done /\ DocumentedRanges =>
        /\ Ge(out.pixelLeads, out.competitorLeads)
        /\ Ge(out.deltaAppts, Zero)
        /\ Ge(out.deltaRevenue, Zero)

\* Within the ranges, with a credit applied and an uplift: the platform
\* scenario is strictly ahead in leads, appointments and revenue.
C20_Witness ==
    Done /\ DocumentedRanges /\ Gt(out.funded, Zero) /\ Gt(uplift, Zero)
         /\ Gt(out.competitorLeads, Zero)
         /\ Gt(out.pixelLeads, out.competitorLeads)
         /\ Gt(out.deltaAppts, Zero) /\ Gt(out.deltaRevenue, Zero)

\* Within the ranges with a spend of 0 and a credit: the competitor has no
\* leads and the platform has some (reached).
C20_CreditOnly ==
    Done /\ DocumentedRanges /\ spend = Zero /\ out.competitorLeads = Zero
         /\ Gt(out.pixelLeads, Zero)

\* C19: the two copies are equivalent: the same market table, the same
\* initial values, and after the same sequence of changes the same slots,
\* metro, acv and out at every step.
C19_CopiesEquivalent ==
    Mounted =>
        /\ CITY_TABLE_App = CITY_TABLE
        /\ DefaultSlotsApp = DefaultSlots
        /\ app.slots = CurrentSlots
        /\ app.metro = metro
        /\ app.acv = acv
        /\ app.out = out

\* Both copies have handled a change of market and a typed spend, and
\* show the same out, which is not the out of the first render.
C19_Witness ==
    Mounted /\ changes = 2 /\ app.slots.city # DefaultSlotsApp.city
            /\ app.slots.spend # DefaultSlotsApp.spend
            /\ app.out = out /\ app.out # AppMounted.out
            /\ app.metro.mult # AppMounted.metro.mult

\* The output for the current inputs with the spend replaced by sp.
OutWithSpend(sp) == outMemo([Closure EXCEPT !.spend = sp])

\* C21: a negative spend is treated as a spend of 0: with every other input
\* as it is, each field of out is the one a spend of 0 gives.
C21_NegativeSpendIsZero ==
    Done /\ Lt(spend, Zero) =>
        /\ out = OutWithSpend(Zero)
        /\ out.competitorLeads = Zero /\ out.competitorAppts = Zero
        /\ out.competitorCpa = Zero /\ out.competitorRevenue = Zero
        /\ out.pixelBudget = out.funded

\* A negative spend with a credit applied: the competitor has nothing, the
\* platform has the leads of the credit alone.
C21_Witness ==
    Done /\ Lt(spend, Zero) /\ Gt(out.funded, Zero) /\ Gt(out.pixelLeads, Zero)
         /\ Gt(out.pixelCpa, Zero) /\ out.competitorCpa = Zero
         /\ out = OutWithSpend(Zero)

\* The fields of an out that C22 says stay as they are.
Frame(o) ==
    <<o.competitorCpl, o.pixelCpl, o.funded, o.pixelBudget, o.competitorLeads,
      o.pixelLeads, o.competitorAppts, o.pixelAppts, o.competitorCpa, o.pixelCpa,
      o.deltaAppts>>

\* The fields of an out that C22 says may change.
Moving(o) ==
    <<o.acv, o.competitorClosed, o.pixelClosed, o.competitorRevenue,
      o.pixelRevenue, o.costOfWaiting, o.deltaRevenue>>

\* A change of commissionRate, of closeRate or of the market's average
\* price alone: every other slot and the market's multiplier stay.
OnlyValueInputsChange ==
    /\ Mounted
    /\ <<channel, spend, pmc, gpc, apptRate, uplift, baseMeta, baseGoogle, fundedCap>>'
         = <<channel, spend, pmc, gpc, apptRate, uplift, baseMeta, baseGoogle, fundedCap>>
    /\ metro'.mult = metro.mult
    /\ \/ commissionRate' # commissionRate
       \/ closeRate' # closeRate
       \/ metro'.avg # metro.avg

\* C22: a change of commissionRate, closeRate or the market's average price
\* alone leaves the two costs per lead, funded, pixelBudget, the leads, the
\* appointments, the costs per appointment and deltaAppts as they were;
\* acv, the closed counts, the revenues, costOfWaiting and deltaRevenue are
\* the only fields that may differ.
C22_FrameOfValueInputs ==
    [][OnlyValueInputsChange => Frame(out') = Frame(out)]_vars

\* The out of the first render.
InitialOut ==
    LET m == resolveMarket(DefaultSlots.city)
    IN  outMemo(ClosureOf(DefaultSlots, m, acvMemo(m, DefaultSlots.commissionRate)))

\* The close rate and then the commission rate have been changed: the
\* frame is that of the first render, and acv, the closed counts, the
\* revenues, costOfWaiting and deltaRevenue all differ from it.
C22_Witness ==
    Mounted /\ changes = 2
            /\ closeRate # DefaultSlots.closeRate
            /\ commissionRate # DefaultSlots.commissionRate
            /\ Frame(out) = Frame(InitialOut)
            /\ \A i \in 1..Len(Moving(out)) : Moving(out)[i] # Moving(InitialOut)[i]

\* The market has been changed for one with the same multiplier and another
\* average price (New York to San Francisco): the frame is that of the
\* first render and the revenues differ (reached).
C22_PriceAlone ==
    Mounted /\ changes = 1 /\ city # DefaultSlots.city
            /\ metro.mult = resolveMarket(DefaultSlots.city).mult
            /\ metro.avg # resolveMarket(DefaultSlots.city).avg
            /\ Frame(out) = Frame(InitialOut)
            /\ out.pixelRevenue # InitialOut.pixelRevenue

=============================================================================
